---- MODULE Spec2Model ----
(***************************************************************************)
(* School planner backend (src/main.py): a FastAPI application over two    *)
(* SQLAlchemy tables, timetables and tasks, stored in SQLite.              *)
(*                                                                         *)
(* Spec   : one client, one request at a time.  Every request goes through *)
(*          the router (first matching route in declaration order) and the *)
(*          handler it selects runs to completion.                          *)
(* SpecC  : two requests served by the thread pool at the same time; each  *)
(*          handler is split at its database round trips (the lookup query *)
(*          and the later flush/commit, each in the request's own Session). *)
(***************************************************************************)
EXTENDS Integers, Sequences, FiniteSets

VARIABLES
    timetables,   \* rows of table timetables
    tasks,        \* rows of table tasks
    resp,         \* the last request served and its response
    session,      \* SpecC: each in-flight request's Session and locals
    assigned,     \* history: every id each table has handed out
    written       \* history: ids of the task rows the last request changed

vars == <<timetables, tasks, resp, session, assigned, written>>

(***************************************************************************)
(* Bounds of the model.                                                    *)
(***************************************************************************)
\* Largest id the store hands out before the model stops creating rows.
MaxId == 2

Ids == 1..MaxId

\* SQL NULL of a nullable column.
NULL == -1

\* A Boolean column as SQLite stores it.
SqlTrue == 1

SqlFalse == 0

Names == {"Fall", "Spring"}

\* Calendar dates as day ordinals (date.toordinal()).
DueDates == {10, 18}

\* Values date.today() takes at the time of a request.
Days == {2, 3, 10, 11, 18}

\* TaskCreate bodies (title, description, due_date).
TaskCreate ==
    { [title |-> "hw", description |-> "read", due_date |-> 10],
      [title |-> "lab", description |-> "write", due_date |-> 18] }

\* TimetableCreate bodies (name).
TimetableCreate == { [name |-> n] : n \in Names }

NoBody == [none |-> TRUE]

(***************************************************************************)
(* Requests: method, path (split at "/"), JSON body, query parameters.     *)
(***************************************************************************)
\* Decimal path segments and the integers they parse to.
Digits == <<"1", "2", "3", "4">>

IsInt(seg) == \E n \in DOMAIN Digits : Digits[n] = seg

ParseInt(seg) == CHOOSE n \in DOMAIN Digits : Digits[n] = seg

Request(method, path, json, query) ==
    [method |-> method, path |-> path, json |-> json, query |-> query]

IdSegs == { Digits[n] : n \in Ids }

Requests ==
    { Request("POST", <<"timetable", "create">>, b, NoBody) : b \in TimetableCreate }
    \cup { Request("GET", <<"timetable", "view">>, NoBody, NoBody) }
    \cup { Request(m, <<"timetable", i>>, NoBody, NoBody) :
             m \in {"GET", "DELETE"}, i \in IdSegs }
    \cup { Request("PUT", <<"timetable", i>>, b, NoBody) :
             i \in IdSegs, b \in TimetableCreate }
    \cup { Request("POST", <<"task", "create">>, b, NoBody) : b \in TaskCreate }
    \cup { Request("GET", <<"task", w>>, NoBody, NoBody) :
             w \in {"view", "completed", "pending", "overdue",
                    "weekly-summary", "daily-summary"} }
    \cup { Request(m, <<"task", i>>, NoBody, NoBody) :
             m \in {"GET", "DELETE"}, i \in IdSegs }
    \cup { Request("PUT", <<"task", i>>, b, NoBody) : i \in IdSegs, b \in TaskCreate }
    \cup { Request("PATCH", <<"task", i, "complete">>, NoBody, NoBody) : i \in IdSegs }
    \cup { Request("GET", <<"timetable", i, "tasks">>, NoBody, NoBody) : i \in IdSegs }
    \cup { Request("POST", <<"timetable", i, "task">>, b, NoBody) :
             i \in IdSegs, b \in TaskCreate }
    \cup { Request("DELETE", <<"timetable", i, "task", j>>, NoBody, NoBody) :
             i \in IdSegs, j \in IdSegs }
    \cup { Request("POST", <<"task", i, "reminder">>, NoBody, [reminder_date |-> d]) :
             i \in IdSegs, d \in DueDates }
    \cup { Request("PATCH", <<"task", "view">>, NoBody, NoBody),
           Request("GET", <<"task">>, NoBody, NoBody) }

(***************************************************************************)
(* The router.  Routes are tried in the order of their decorators; a path  *)
(* parameter matches any one segment, and its int type is validated only   *)
(* after the route has been chosen.                                         *)
(***************************************************************************)
Route(method, path, endpoint) ==
    [method |-> method, path |-> path, endpoint |-> endpoint]

PathParams == {"{timetable_id}", "{task_id}"}

routes ==
    << Route("POST", <<"timetable", "create">>, "create_timetable"),
       Route("GET", <<"timetable", "view">>, "view_timetables"),
       Route("GET", <<"timetable", "{timetable_id}">>, "get_timetable"),
       Route("PUT", <<"timetable", "{timetable_id}">>, "update_timetable"),
       Route("DELETE", <<"timetable", "{timetable_id}">>, "delete_timetable"),
       Route("POST", <<"task", "create">>, "create_task"),
       Route("GET", <<"task", "view">>, "view_tasks"),
       Route("GET", <<"task", "{task_id}">>, "get_task"),
       Route("PUT", <<"task", "{task_id}">>, "update_task"),
       Route("DELETE", <<"task", "{task_id}">>, "delete_task"),
       Route("PATCH", <<"task", "{task_id}", "complete">>, "mark_task_complete"),
       Route("GET", <<"task", "completed">>, "view_completed_tasks"),
       Route("GET", <<"task", "pending">>, "view_pending_tasks"),
       Route("GET", <<"timetable", "{timetable_id}", "tasks">>, "view_tasks_in_timetable"),
       Route("POST", <<"timetable", "{timetable_id}", "task">>, "add_task_to_timetable"),
       Route("DELETE", <<"timetable", "{timetable_id}", "task", "{task_id}">>,
             "remove_task_from_timetable"),
       Route("POST", <<"task", "{task_id}", "reminder">>, "set_task_reminder"),
       Route("GET", <<"task", "overdue">>, "view_overdue_tasks"),
       Route("GET", <<"task", "weekly-summary">>, "get_weekly_task_summary"),
       Route("GET", <<"task", "daily-summary">>, "get_daily_task_summary") >>

\* The path regex of a route: literal segments equal, a parameter is [^/]+.
PathMatches(pattern, path) ==
    /\ Len(pattern) = Len(path)
    /\ \A k \in DOMAIN pattern : pattern[k] \in PathParams \/ pattern[k] = path[k]

FullMatches(method, path) ==
    { k \in DOMAIN routes : PathMatches(routes[k].path, path) /\ routes[k].method = method }

PartialMatches(method, path) ==
    { k \in DOMAIN routes : PathMatches(routes[k].path, path) /\ routes[k].method # method }

Min(S) == CHOOSE x \in S : \A y \in S : x <= y

Max(S) == CHOOSE x \in S : \A y \in S : x >= y

\* The route that serves the request: the first full match in declaration order.
FirstMatch(method, path) == Min(FullMatches(method, path))

\* The endpoint the router calls, or the router's own 405 / 404.
Dispatch(method, path) ==
    IF FullMatches(method, path) # {} THEN routes[FirstMatch(method, path)].endpoint
    ELSE IF PartialMatches(method, path) # {} THEN "method_not_allowed"
    ELSE "not_found"

\* Path parameters of the chosen route that fail int validation.
BadParams(method, path) ==
    LET pattern == routes[FirstMatch(method, path)].path
    IN  { k \in DOMAIN pattern : pattern[k] \in PathParams /\ ~IsInt(path[k]) }

\* What the router does with each request: the endpoint it selects and
\* whether the arguments pass validation, so that the endpoint's body runs.
Routing ==
    [ req \in Requests |->
        [endpoint |-> Dispatch(req.method, req.path),
         matched |-> FullMatches(req.method, req.path) # {},
         valid |-> /\ FullMatches(req.method, req.path) # {}
                   /\ BadParams(req.method, req.path) = {}] ]

\* The request reaches the body of `endpoint` with valid arguments.
Calls(req, endpoint) ==
    /\ Routing[req].endpoint = endpoint
    /\ Routing[req].valid

(***************************************************************************)
(* The store: the rows of the two tables.                                   *)
(***************************************************************************)
\* Timetable(name=...) as inserted: SQLite gives the INTEGER PRIMARY KEY
\* column (declared without AUTOINCREMENT) one more than the largest rowid
\* now in the table, or 1 when the table is empty.
NextRowId(rows) ==
    IF rows = {} THEN 1 ELSE Max({ r.id : r \in rows }) + 1

Timetable(id, name) == [id |-> id, name |-> name]

\* Mutation: the completed column without its default.
Task_nodefault(id, title, description, due_date, timetable_id) ==
    [id |-> id, title |-> title, description |-> description, due_date |-> due_date,
     completed |-> NULL, timetable_id |-> timetable_id]

\* Task(...) as inserted: completed takes the column default False.
Task(id, title, description, due_date, timetable_id) ==
    [id |-> id, title |-> title, description |-> description, due_date |-> due_date,
     completed |-> SqlFalse, timetable_id |-> timetable_id]

\* column == value in a filter: never true of a NULL column.
SqlEq(column, value) == column # NULL /\ value # NULL /\ column = value

\* query.filter(<Model>.id == id).first(): the set holding the row, or {} for None.
ById(rows, id) == { r \in rows : SqlEq(r.id, id) }

TimetableResponse(row) == [id |-> row.id, name |-> row.name]

TaskResponse(row) ==
    [id |-> row.id, title |-> row.title, description |-> row.description,
     due_date |-> row.due_date, completed |-> (row.completed = SqlTrue)]

HTTPException(status_code, detail) == [status_code |-> status_code, detail |-> detail]

Respond(req, endpoint, status_code, body) ==
    resp' = [req |-> req, endpoint |-> endpoint, status_code |-> status_code, body |-> body]

Raise(req, endpoint, exc) ==
    Respond(req, endpoint, exc.status_code, [detail |-> exc.detail])

PathInt(req, k) == ParseInt(req.path[k])

\* The history variables record what a step did; they decide nothing.
History ==
    /\ assigned' = [timetables |-> assigned.timetables \cup { t.id : t \in timetables' },
                    tasks |-> assigned.tasks \cup { t.id : t \in tasks' }]
    /\ written' = { t.id : t \in (tasks \ tasks') \cup (tasks' \ tasks) }

(***************************************************************************)
(* Timetable endpoints.                                                     *)
(***************************************************************************)
create_timetable(req) ==
    /\ Calls(req, "create_timetable")
    /\ NextRowId(timetables) <= MaxId
    /\ LET new_timetable == Timetable(NextRowId(timetables), req.json.name)
       IN  /\ timetables' = timetables \cup {new_timetable}
           /\ Respond(req, "create_timetable", 200, TimetableResponse(new_timetable))
    /\ UNCHANGED <<tasks, session>>
    /\ History

view_timetables(req) ==
    /\ Calls(req, "view_timetables")
    /\ Respond(req, "view_timetables", 200, { TimetableResponse(t) : t \in timetables })
    /\ UNCHANGED <<timetables, tasks, session>>
    /\ History

get_timetable(req) ==
    /\ Calls(req, "get_timetable")
    /\ LET timetable == ById(timetables, PathInt(req, 2))
       IN  IF timetable = {}
           THEN Raise(req, "get_timetable", HTTPException(404, "Timetable not found"))
           ELSE \E row \in timetable :
                    Respond(req, "get_timetable", 200, TimetableResponse(row))
    /\ UNCHANGED <<timetables, tasks, session>>
    /\ History

update_timetable(req) ==
    /\ Calls(req, "update_timetable")
    /\ LET existing_timetable == ById(timetables, PathInt(req, 2))
       IN  IF existing_timetable = {}
           THEN /\ Raise(req, "update_timetable", HTTPException(404, "Timetable not found"))
                /\ UNCHANGED timetables
           ELSE \E row \in existing_timetable :
                    LET updated == [row EXCEPT !.name = req.json.name]
                    IN  /\ timetables' = (timetables \ {row}) \cup {updated}
                        /\ Respond(req, "update_timetable", 200, TimetableResponse(updated))
    /\ UNCHANGED <<tasks, session>>
    /\ History

\* Mutation: the children are left to the database (passive_deletes="all").
OrphanTasks_passive(rows, timetable_id) == rows

\* What the flush of db.delete(timetable) does to the rows of Timetable.tasks:
\* the relationship has the default cascade (no delete, no passive_deletes),
\* so the unit of work loads the children and sets their foreign key to NULL.
OrphanTasks(rows, timetable_id) ==
    { IF SqlEq(t.timetable_id, timetable_id) THEN [t EXCEPT !.timetable_id = NULL] ELSE t :
        t \in rows }

delete_timetable(req) ==
    /\ Calls(req, "delete_timetable")
    /\ LET timetable == ById(timetables, PathInt(req, 2))
       IN  IF timetable = {}
           THEN /\ Raise(req, "delete_timetable", HTTPException(404, "Timetable not found"))
                /\ UNCHANGED <<timetables, tasks>>
           ELSE \E row \in timetable :
                    /\ timetables' = timetables \ {row}
                    /\ tasks' = OrphanTasks(tasks, row.id)
                    /\ Respond(req, "delete_timetable", 200, [detail |-> "Timetable deleted"])
    /\ UNCHANGED <<session>>
    /\ History

(***************************************************************************)
(* Task endpoints.                                                          *)
(***************************************************************************)
create_task(req) ==
    /\ Calls(req, "create_task")
    /\ NextRowId(tasks) <= MaxId
    /\ LET task == req.json
           new_task == Task(NextRowId(tasks), task.title, task.description,
                            task.due_date, NULL)
       IN  /\ tasks' = tasks \cup {new_task}
           /\ Respond(req, "create_task", 200, TaskResponse(new_task))
    /\ UNCHANGED <<timetables, session>>
    /\ History

view_tasks(req) ==
    /\ Calls(req, "view_tasks")
    /\ Respond(req, "view_tasks", 200, { TaskResponse(t) : t \in tasks })
    /\ UNCHANGED <<timetables, tasks, session>>
    /\ History

get_task(req) ==
    /\ Calls(req, "get_task")
    /\ LET task == ById(tasks, PathInt(req, 2))
       IN  IF task = {}
           THEN Raise(req, "get_task", HTTPException(404, "Task not found"))
           ELSE \E row \in task : Respond(req, "get_task", 200, TaskResponse(row))
    /\ UNCHANGED <<timetables, tasks, session>>
    /\ History

\* Mutation: a full update that also resets the completion flag.
UpdatedTask_resets(row, task) ==
    [row EXCEPT !.title = task.title, !.description = task.description,
                !.due_date = task.due_date, !.completed = SqlFalse]

\* The three assignments of update_task.
UpdatedTask(row, task) ==
    [row EXCEPT !.title = task.title, !.description = task.description,
                !.due_date = task.due_date]

update_task(req) ==
    /\ Calls(req, "update_task")
    /\ LET existing_task == ById(tasks, PathInt(req, 2))
       IN  IF existing_task = {}
           THEN /\ Raise(req, "update_task", HTTPException(404, "Task not found"))
                /\ UNCHANGED tasks
           ELSE \E row \in existing_task :
                    /\ tasks' = (tasks \ {row}) \cup {UpdatedTask(row, req.json)}
                    /\ Respond(req, "update_task", 200,
                               TaskResponse(UpdatedTask(row, req.json)))
    /\ UNCHANGED <<timetables, session>>
    /\ History

\* Mutation: a delete that succeeds whether or not the row exists.
delete_task_silent(req) ==
    /\ Calls(req, "delete_task")
    /\ tasks' = tasks \ ById(tasks, PathInt(req, 2))
    /\ Respond(req, "delete_task", 200, [detail |-> "Task deleted"])
    /\ UNCHANGED <<timetables, session>>
    /\ History

delete_task(req) ==
    /\ Calls(req, "delete_task")
    /\ LET task == ById(tasks, PathInt(req, 2))
       IN  IF task = {}
           THEN /\ Raise(req, "delete_task", HTTPException(404, "Task not found"))
                /\ UNCHANGED tasks
           ELSE /\ tasks' = tasks \ task
                /\ Respond(req, "delete_task", 200, [detail |-> "Task deleted"])
    /\ UNCHANGED <<timetables, session>>
    /\ History

mark_task_complete(req) ==
    /\ Calls(req, "mark_task_complete")
    /\ LET task == ById(tasks, PathInt(req, 2))
       IN  IF task = {}
           THEN /\ Raise(req, "mark_task_complete", HTTPException(404, "Task not found"))
                /\ UNCHANGED tasks
           ELSE \E row \in task :
                    LET done == [row EXCEPT !.completed = SqlTrue]
                    IN  /\ tasks' = (tasks \ {row}) \cup {done}
                        /\ Respond(req, "mark_task_complete", 200, TaskResponse(done))
    /\ UNCHANGED <<timetables, session>>
    /\ History

(***************************************************************************)
(* Task and timetable associations.                                         *)
(***************************************************************************)
view_tasks_in_timetable(req) ==
    /\ Calls(req, "view_tasks_in_timetable")
    /\ Respond(req, "view_tasks_in_timetable", 200,
               { TaskResponse(t) :
                   t \in { r \in tasks : SqlEq(r.timetable_id, PathInt(req, 2)) } })
    /\ UNCHANGED <<timetables, tasks, session>>
    /\ History

\* SQLite does not enforce the ForeignKey of timetable_id (PRAGMA foreign_keys
\* is never switched on): the insert succeeds whatever timetable_id is.
add_task_to_timetable(req) ==
    /\ Calls(req, "add_task_to_timetable")
    /\ NextRowId(tasks) <= MaxId
    /\ LET task == req.json
           new_task == Task(NextRowId(tasks), task.title, task.description,
                            task.due_date, PathInt(req, 2))
       IN  /\ tasks' = tasks \cup {new_task}
           /\ Respond(req, "add_task_to_timetable", 200, TaskResponse(new_task))
    /\ UNCHANGED <<timetables, session>>
    /\ History

\* Mutation: the lookup filters on the task id alone.
remove_task_any_timetable(req) ==
    /\ Calls(req, "remove_task_from_timetable")
    /\ LET task == ById(tasks, PathInt(req, 4))
       IN  IF task = {}
           THEN /\ Raise(req, "remove_task_from_timetable",
                         HTTPException(404, "Task not found in the timetable"))
                /\ UNCHANGED tasks
           ELSE /\ tasks' = tasks \ task
                /\ Respond(req, "remove_task_from_timetable", 200,
                           [detail |-> "Task removed from timetable"])
    /\ UNCHANGED <<timetables, session>>
    /\ History

remove_task_from_timetable(req) ==
    /\ Calls(req, "remove_task_from_timetable")
    /\ LET timetable_id == PathInt(req, 2)
           task_id == PathInt(req, 4)
           task == { r \in tasks :
                       SqlEq(r.id, task_id) /\ SqlEq(r.timetable_id, timetable_id) }
       IN  IF task = {}
           THEN /\ Raise(req, "remove_task_from_timetable",
                         HTTPException(404, "Task not found in the timetable"))
                /\ UNCHANGED tasks
           ELSE /\ tasks' = tasks \ task
                /\ Respond(req, "remove_task_from_timetable", 200,
                           [detail |-> "Task removed from timetable"])
    /\ UNCHANGED <<timetables, session>>
    /\ History

(***************************************************************************)
(* Additional features.                                                     *)
(***************************************************************************)
set_task_reminder(req) ==
    /\ Calls(req, "set_task_reminder")
    /\ LET task == ById(tasks, PathInt(req, 2))
       IN  IF task = {}
           THEN Raise(req, "set_task_reminder", HTTPException(404, "Task not found"))
           ELSE \E row \in task :
                    Respond(req, "set_task_reminder", 200,
                            [detail |-> <<"Reminder set for task", row.title, "on",
                                          req.query.reminder_date>>])
    /\ UNCHANGED <<timetables, tasks, session>>
    /\ History

\* The listings declared after /task/{task_id}: what each handler returns for
\* the rows of the tasks table and the value of date.today().
view_completed_tasks(rows) ==
    { TaskResponse(t) : t \in { r \in rows : SqlEq(r.completed, SqlTrue) } }

view_pending_tasks(rows) ==
    { TaskResponse(t) : t \in { r \in rows : SqlEq(r.completed, SqlFalse) } }

view_overdue_tasks(rows, today) ==
    { TaskResponse(t) :
        t \in { r \in rows : r.due_date < today /\ SqlEq(r.completed, SqlFalse) } }

\* Mutation: a range that leaves out its upper bound.
Between_exclusive(column, lo, hi) == column >= lo /\ column < hi

\* column.between(lo, hi): SQL BETWEEN.
Between(column, lo, hi) == column >= lo /\ column <= hi

get_weekly_task_summary(rows, today) ==
    LET week_from_today == today + 7
    IN  { TaskResponse(t) :
            t \in { r \in rows : Between(r.due_date, today, week_from_today) } }

get_daily_task_summary(rows, today) ==
    { TaskResponse(t) : t \in { r \in rows : SqlEq(r.due_date, today) } }

(***************************************************************************)
(* Requests that never reach the body of an endpoint.                       *)
(***************************************************************************)
\* A path parameter of the chosen route is not an int: 422, endpoint not run.
validation_error(req) ==
    /\ Routing[req].matched
    /\ ~Routing[req].valid
    /\ Respond(req, Routing[req].endpoint, 422, [detail |-> "int_parsing"])
    /\ UNCHANGED <<timetables, tasks, session>>
    /\ History

\* No route matches the path and the method.
router_error(req) ==
    /\ ~Routing[req].matched
    /\ LET endpoint == Routing[req].endpoint
       IN  Respond(req, endpoint, IF endpoint = "method_not_allowed" THEN 405 ELSE 404,
                   [detail |-> endpoint])
    /\ UNCHANGED <<timetables, tasks, session>>
    /\ History

(***************************************************************************)
(* One client, one request at a time.                                       *)
(***************************************************************************)
Clients == {1, 2}

Idle == [pc |-> "idle"]

NoRequest == Request("", <<>>, NoBody, NoBody)

Init ==
    /\ timetables = {}
    /\ tasks = {}
    /\ resp = [req |-> NoRequest, endpoint |-> "", status_code |-> 0, body |-> NoBody]
    /\ assigned = [timetables |-> {}, tasks |-> {}]
    /\ written = {}
    /\ session = [c \in Clients |-> Idle]

Serve(req) ==
    \/ create_timetable(req)
    \/ view_timetables(req)
    \/ get_timetable(req)
    \/ update_timetable(req)
    \/ delete_timetable(req)
    \/ create_task(req)
    \/ view_tasks(req)
    \/ get_task(req)
    \/ update_task(req)
    \/ delete_task(req)
    \/ mark_task_complete(req)
    \/ view_tasks_in_timetable(req)
    \/ add_task_to_timetable(req)
    \/ remove_task_from_timetable(req)
    \/ set_task_reminder(req)
    \/ validation_error(req)
    \/ router_error(req)

Next == \E req \in Requests : Serve(req)

Spec == Init /\ [][Next]_vars

(***************************************************************************)
(* Two requests in the thread pool.  A handler's query and its later       *)
(* flush/commit are separate statements of the request's own Session; the  *)
(* query leaves no lock behind, so the other request may commit between.   *)
(***************************************************************************)
InitC ==
    /\ timetables = {}
    /\ tasks \in { { Task(1, "hw", "read", 10, NULL) },
                   { Task(1, "hw", "read", 10, NULL), Task(2, "lab", "write", 18, NULL) } }
    /\ resp = [req |-> NoRequest, endpoint |-> "", status_code |-> 0, body |-> NoBody]
    /\ assigned = [timetables |-> {}, tasks |-> { t.id : t \in tasks }]
    /\ written = {}
    /\ session = [c \in Clients |-> Idle]

Done(endpoint, task_id, status_code) ==
    [pc |-> "done", endpoint |-> endpoint, task_id |-> task_id, status_code |-> status_code]

\* delete_task, line 142: the lookup and the 404.
delete_task_query(c, task_id) ==
    /\ session[c].pc = "idle"
    /\ LET task == ById(tasks, task_id)
       IN  session' = [session EXCEPT ![c] =
               IF task = {} THEN Done("delete_task", task_id, 404)
               ELSE [pc |-> "queried", endpoint |-> "delete_task", task_id |-> task_id,
                     task |-> task, json |-> NoBody]]
    /\ UNCHANGED <<timetables, tasks, resp>>
    /\ History

\* delete_task, lines 145-147: DELETE ... WHERE id = ?.  When the row is gone
\* the ORM only warns that 0 rows matched, and the handler returns its detail.
delete_task_commit(c) ==
    /\ session[c].pc = "queried"
    /\ session[c].endpoint = "delete_task"
    /\ tasks' = tasks \ ById(tasks, session[c].task_id)
    /\ session' = [session EXCEPT ![c] = Done("delete_task", session[c].task_id, 200)]
    /\ UNCHANGED <<timetables, resp>>
    /\ History

\* update_task, line 130: the lookup and the 404.
update_task_query(c, task_id, task) ==
    /\ session[c].pc = "idle"
    /\ LET existing_task == ById(tasks, task_id)
       IN  session' = [session EXCEPT ![c] =
               IF existing_task = {} THEN Done("update_task", task_id, 404)
               ELSE [pc |-> "queried", endpoint |-> "update_task", task_id |-> task_id,
                     task |-> existing_task, json |-> task]]
    /\ UNCHANGED <<timetables, tasks, resp>>
    /\ History

\* The UPDATE the flush emits: only the attributes whose value differs from
\* the one loaded by the query are set.
FlushedTask(current, loaded, task) ==
    [current EXCEPT
       !.title = IF task.title # loaded.title THEN task.title ELSE @,
       !.description = IF task.description # loaded.description THEN task.description ELSE @,
       !.due_date = IF task.due_date # loaded.due_date THEN task.due_date ELSE @]

\* update_task, lines 133-136: the assignments and db.commit().  An UPDATE
\* that matches 0 rows raises StaleDataError, which nothing catches: 500.
update_task_commit(c) ==
    /\ session[c].pc = "queried"
    /\ session[c].endpoint = "update_task"
    /\ \E loaded \in session[c].task :
         LET current == ById(tasks, loaded.id)
             dirty == UpdatedTask(loaded, session[c].json) # loaded
         IN  IF dirty /\ current = {}
             THEN /\ session' = [session EXCEPT ![c] =
                                   Done("update_task", session[c].task_id, 500)]
                  /\ UNCHANGED tasks
             ELSE /\ tasks' = { IF t.id = loaded.id /\ dirty
                                THEN FlushedTask(t, loaded, session[c].json) ELSE t :
                                  t \in tasks }
                  /\ session' = [session EXCEPT ![c].pc = "committed"]
    /\ UNCHANGED <<timetables, resp>>
    /\ History

\* update_task, lines 137-138: db.refresh() selects the row again; when it is
\* gone it raises InvalidRequestError, which nothing catches: 500.
update_task_refresh(c) ==
    /\ session[c].pc = "committed"
    /\ session' = [session EXCEPT ![c] =
            Done("update_task", session[c].task_id,
                 IF ById(tasks, session[c].task_id) = {} THEN 500 ELSE 200)]
    /\ UNCHANGED <<timetables, tasks, resp>>
    /\ History

Step(c) ==
    \/ \E task_id \in Ids : delete_task_query(c, task_id)
    \/ delete_task_commit(c)
    \/ \E task_id \in Ids, task \in TaskCreate : update_task_query(c, task_id, task)
    \/ update_task_commit(c)
    \/ update_task_refresh(c)

NextC == \E c \in Clients : Step(c)

SpecC == InitC /\ [][NextC]_vars

(***************************************************************************)
(* Properties.                                                              *)
(***************************************************************************)
Served(endpoint) == resp.req \in Requests /\ Calls(resp.req, endpoint)

ServedNext(endpoint) == resp'.req \in Requests /\ Calls(resp'.req, endpoint)

\* C1: every create returns an id that the same table has never handed out
\* before, deleted rows included (ids are never reused).
C1_IdsNeverReused ==
    [][ /\ ServedNext("create_timetable") => resp'.body.id \notin assigned.timetables
        /\ ServedNext("create_task") => resp'.body.id \notin assigned.tasks
        /\ ServedNext("add_task_to_timetable") => resp'.body.id \notin assigned.tasks ]_vars

C3_TimetableExistsWhenSet ==
    \A endpoint \in {"create_task", "add_task_to_timetable"} :
        Served(endpoint) =>
            \A t \in ById(tasks, resp.body.id) :
                t.timetable_id # NULL => ById(timetables, t.timetable_id) # {}

TimetableIdEndpoints == {"get_timetable", "update_timetable", "delete_timetable"}

TaskIdEndpoints ==
    {"get_task", "update_task", "delete_task", "mark_task_complete", "set_task_reminder"}

\* The request names, by id, a record the store does not hold.
TargetMissing(req) ==
    \/ \E e \in TimetableIdEndpoints : Calls(req, e) /\ ById(timetables, PathInt(req, 2)) = {}
    \/ \E e \in TaskIdEndpoints : Calls(req, e) /\ ById(tasks, PathInt(req, 2)) = {}

\* C4: Get, Update, Delete (timetable and task), Complete Task and Set Task
\* Reminder on an id with no record answer 404 and leave both tables as they
\* were.  A successful delete leaves no record with that id and only a create
\* brings one back, so a delete repeated with no create in between answers
\* 404; in particular when it is repeated at once.
C4_NotFoundLeavesStore ==
    [][ resp'.req \in Requests =>
          /\ TargetMissing(resp'.req) =>
               /\ resp'.status_code = 404
               /\ UNCHANGED <<timetables, tasks>>
          /\ (ServedNext("delete_timetable") /\ resp'.status_code = 200) =>
               ById(timetables', PathInt(resp'.req, 2)) = {}
          /\ (ServedNext("delete_task") /\ resp'.status_code = 200) =>
               ById(tasks', PathInt(resp'.req, 2)) = {}
          /\ \A id \in Ids :
               /\ (ById(timetables, id) = {} /\ ById(timetables', id) # {}) =>
                    ServedNext("create_timetable")
               /\ (ById(tasks, id) = {} /\ ById(tasks', id) # {}) =>
                    ServedNext("create_task") \/ ServedNext("add_task_to_timetable")
          /\ ( /\ resp.endpoint \in {"delete_timetable", "delete_task"}
               /\ resp.status_code = 200
               /\ resp'.req = resp.req ) => resp'.status_code = 404 ]_vars

\* A delete of a task id that was handed out and is gone answered 404 while
\* other rows are stored.
C4_Witness ==
    /\ Served("delete_task")
    /\ resp.status_code = 404
    /\ PathInt(resp.req, 2) \in assigned.tasks
    /\ tasks # {}
    /\ timetables # {}

\* C5: requests are atomic.  No request ends in a failure other than 404, and
\* of two Delete Task requests for the same id (no task is created meanwhile)
\* at most one succeeds.
C5_RequestsAtomic ==
    /\ \A c \in Clients : session[c].pc = "done" => session[c].status_code \in {200, 404}
    /\ \A c, d \in Clients :
         ( /\ c # d
           /\ session[c].pc = "done" /\ session[d].pc = "done"
           /\ session[c].endpoint = "delete_task" /\ session[d].endpoint = "delete_task"
           /\ session[c].task_id = session[d].task_id )
         => ~(session[c].status_code = 200 /\ session[d].status_code = 200)

\* C6: Remove Task From Timetable(tt, task_id) deletes exactly the task with
\* that id and that timetable_id when there is one; otherwise it answers 404,
\* the table is unchanged and a task with that id is still found by id.
C6_RemoveOnlyFromItsTimetable ==
    [][ ServedNext("remove_task_from_timetable") =>
          LET timetable_id == PathInt(resp'.req, 2)
              task_id == PathInt(resp'.req, 4)
              match == { t \in tasks : t.id = task_id /\ t.timetable_id = timetable_id }
          IN  IF match # {}
              THEN resp'.status_code = 200 /\ tasks' = tasks \ match
              ELSE /\ resp'.status_code = 404
                   /\ tasks' = tasks
                   /\ ById(tasks', task_id) = ById(tasks, task_id) ]_vars

\* A removal was refused with 404 although a task with that id is stored,
\* attached to another timetable.
C6_Witness ==
    /\ Served("remove_task_from_timetable")
    /\ resp.status_code = 404
    /\ \E t \in ById(tasks, PathInt(resp.req, 4)) :
         t.timetable_id \notin {NULL, PathInt(resp.req, 2)}

\* C7: the completed and the pending listing are disjoint and together are
\* exactly the listing of all tasks.
C7_CompletedPendingPartition ==
    /\ view_completed_tasks(tasks) \cap view_pending_tasks(tasks) = {}
    /\ view_completed_tasks(tasks) \cup view_pending_tasks(tasks)
         = { TaskResponse(t) : t \in tasks }

\* Both listings are non-empty, with a task made by each way of creating one.
C7_Witness ==
    /\ view_completed_tasks(tasks) # {}
    /\ view_pending_tasks(tasks) # {}
    /\ \E t \in tasks : t.timetable_id # NULL
    /\ \E t \in tasks : t.timetable_id = NULL

\* C8: a successful Update Task sets title, description and due_date of the
\* task to the given values (so a Get Task returns them), keeps its id,
\* completed and timetable_id, and changes no other record.
C8_UpdateTaskFrame ==
    [][ (ServedNext("update_task") /\ resp'.status_code = 200) =>
          LET task_id == PathInt(resp'.req, 2)
              given == resp'.req.json
          IN  /\ \E old \in ById(tasks, task_id), new \in ById(tasks', task_id) :
                   /\ TaskResponse(new).title = given.title
                   /\ TaskResponse(new).description = given.description
                   /\ TaskResponse(new).due_date = given.due_date
                   /\ new.id = old.id
                   /\ new.completed = old.completed
                   /\ new.timetable_id = old.timetable_id
                   /\ tasks' \ {new} = tasks \ {old}
              /\ timetables' = timetables ]_vars

\* An update has just rewritten a completed task attached to a timetable,
\* with another task and a timetable stored beside it.
C8_Witness ==
    /\ Served("update_task")
    /\ resp.status_code = 200
    /\ written = {PathInt(resp.req, 2)}
    /\ \E t \in ById(tasks, PathInt(resp.req, 2)) :
         t.completed = SqlTrue /\ t.timetable_id # NULL
    /\ Cardinality(tasks) > 1
    /\ timetables # {}

Listings ==
    { <<"completed", "view_completed_tasks">>, <<"pending", "view_pending_tasks">>,
      <<"overdue", "view_overdue_tasks">>, <<"weekly-summary", "get_weekly_task_summary">>,
      <<"daily-summary", "get_daily_task_summary">> }

\* C9: a GET for each of the five task listings is served by that listing's
\* handler and answers 200.
C9_ListingsReachable ==
    \A l \in Listings :
        (resp.req.method = "GET" /\ resp.req.path = <<"task", l[1]>>) =>
            resp.endpoint = l[2] /\ resp.status_code = 200

\* C10: whatever the day, the weekly summary holds exactly the tasks due from
\* today to today + 7, both included, completed or not.
C10_WeeklySummaryBounds ==
    \A today \in Days :
        /\ get_weekly_task_summary(tasks, today) \subseteq { TaskResponse(t) : t \in tasks }
        /\ \A t \in tasks :
             /\ TaskResponse(t) \in get_weekly_task_summary(tasks, today)
                  <=> (t.due_date - today) \in 0..7
             /\ t.due_date \in {today, today + 7}
                  => TaskResponse(t) \in get_weekly_task_summary(tasks, today)
             /\ (t.due_date = today + 8 \/ t.due_date < today)
                  => TaskResponse(t) \notin get_weekly_task_summary(tasks, today)

\* The store holds a completed task that is due today, in 7 days, in 8 days
\* and before today, each for one of the days.
C10_Witness ==
    \E t \in tasks :
        /\ t.completed = SqlTrue
        /\ \E today \in Days : t.due_date = today
        /\ \E today \in Days : t.due_date = today + 7
        /\ \E today \in Days : t.due_date = today + 8
        /\ \E today \in Days : t.due_date < today

====
